---- MODULE Spec2Model ----
(***************************************************************************)
(* Model of the cloudflare-php-log worker: the fetch handler of            *)
(* src/src/index.ts (lines 89-230, the handler with the KV cache) and the  *)
(* response normaliser of src/src/analyticsClient.ts.                      *)
(*                                                                         *)
(* Strings the code inspects character by character (paths, the            *)
(* authorization header, the user agent) are sequences of one-character    *)
(* strings.  JavaScript values are tagged records [t |-> tag, v |-> ...].  *)
(***************************************************************************)
EXTENDS Integers, Sequences, FiniteSets, TLC

VARIABLES
    QUERY_TOKEN,  \* env.QUERY_TOKEN, the configured reporting token
    now,          \* wall clock in seconds (drives the KV expiry)
    kv,           \* env.PHP_LOG_KV: key -> entry
    pc,           \* per request: where the handler is suspended
    req,          \* per request: the inbound request
    local,        \* per request: the handler's local `result.data`
    resp,         \* per request: what the handler returned (or threw)
    tele,         \* per request: state of the promise given to ctx.waitUntil
    events,       \* per request: the records passed to writeDataPoint
    logs,         \* per request: console.error lines
    obs,          \* per request: what the collaborators answered
    cnt,          \* per request: numbers of KV reads, upstream queries, KV writes
    fnArg,        \* argument of the pure function under check
    fnRes         \* its result, <<>> until applied

handlerVars == <<QUERY_TOKEN, now, kv, pc, req, local, resp, tele, events, logs, obs, cnt>>
fnVars == <<fnArg, fnRes>>
vars == <<QUERY_TOKEN, now, kv, pc, req, local, resp, tele, events, logs, obs, cnt, fnArg, fnRes>>

(***************************************************************************)
(* Bounds                                                                  *)
(***************************************************************************)
MaxPathLen == 5      \* isPhpPath is checked on every path up to this length
MaxTicks == 2        \* the clock advances at most this many times
TickSeconds == 30    \* seconds per clock tick
LongUaExtra == 1     \* the long user agent exceeds the limit by this much

(***************************************************************************)
(* Sequences as strings                                                    *)
(***************************************************************************)
Min(a, b) == IF a < b THEN a ELSE b

\* String.prototype.slice(from, to) for 0 <= from <= to (0-based, end exclusive)
Slice(s, from, to) == SubSeq(s, from + 1, Min(to, Len(s)))

\* String.prototype.slice(from) (0-based)
SliceFrom(s, from) == SubSeq(s, from + 1, Len(s))

\* String.prototype.startsWith
StartsWith(s, pre) == Len(s) >= Len(pre) /\ SubSeq(s, 1, Len(pre)) = pre

\* Case folding of the regular expressions' i flag, on the letters in use
ToLower(c) ==
    CASE c = "P" -> "p" [] c = "H" -> "h" [] c = "L" -> "l" [] c = "O" -> "o"
      [] c = "G" -> "g" [] c = "T" -> "t" [] OTHER -> c

(***************************************************************************)
(* Regular expressions: a pattern is a sequence of items, each a literal   *)
(* character or the group (?:$|[class]); all patterns carry the i flag.    *)
(***************************************************************************)
Lit(c) == [k |-> "lit", c |-> c, cls |-> {}]
EndOrClass(cls) == [k |-> "endOrClass", c |-> "", cls |-> cls]

RECURSIVE MatchHere(_, _, _, _)
\* Does pattern pat, from its item j on, match s starting at position pos?
MatchHere(pat, j, s, pos) ==
    IF j > Len(pat) THEN TRUE
    ELSE IF pat[j].k = "lit"
         THEN /\ pos <= Len(s)
              /\ ToLower(s[pos]) = ToLower(pat[j].c)
              /\ MatchHere(pat, j + 1, s, pos + 1)
         ELSE \/ pos = Len(s) + 1 /\ MatchHere(pat, j + 1, s, pos)
              \/ /\ pos <= Len(s)
                 /\ s[pos] \in pat[j].cls
                 /\ MatchHere(pat, j + 1, s, pos + 1)

\* RegExp.prototype.test for an unanchored pattern
RegexTest(pat, s) == \E pos \in 1..(Len(s) + 1) : MatchHere(pat, 1, s, pos)

\* RegExp.prototype.test for a pattern starting with ^
RegexTestAnchored(pat, s) == MatchHere(pat, 1, s, 1)

\* /\.php(?:$|[\/?])/i
PhpRegex == <<Lit("."), Lit("p"), Lit("h"), Lit("p"), EndOrClass({"/", "?"})>>

\* /\.php/i : the pattern without its trailing group
PhpRegexNoTail == <<Lit("."), Lit("p"), Lit("h"), Lit("p")>>

\* /^\/_php_log/i
ApiRegex == <<Lit("/"), Lit("_"), Lit("p"), Lit("h"), Lit("p"), Lit("_"),
              Lit("l"), Lit("o"), Lit("g")>>

\* (mutant) ".php" anywhere
isPhpPath_noTail(path) == RegexTest(PhpRegexNoTail, path)

isPhpPath(path) == RegexTest(PhpRegex, path)

isAPIPath(path) == RegexTestAnchored(ApiRegex, path)

(***************************************************************************)
(* JavaScript values: [t |-> tag, v |-> payload].  Numbers carry their     *)
(* decimal text, arrays a sequence of values, objects a sequence of        *)
(* <<key, value>> pairs in property order.                                 *)
(***************************************************************************)
Undef == [t |-> "undef", v |-> ""]
Null == [t |-> "null", v |-> ""]
Num(s) == [t |-> "num", v |-> s]
Str(s) == [t |-> "str", v |-> s]
Bool(s) == [t |-> "bool", v |-> s]
Arr(seq) == [t |-> "arr", v |-> seq]
Obj(pairs) == [t |-> "obj", v |-> pairs]

\* typeof x
TypeOf(x) ==
    CASE x.t = "undef" -> "undefined" [] x.t = "num" -> "number"
      [] x.t = "str" -> "string" [] x.t = "bool" -> "boolean"
      [] OTHER -> "object"

\* (mutant) an empty array counts as false
Truthy_emptyArrayFalsy(x) ==
    CASE x.t \in {"undef", "null"} -> FALSE
      [] x.t = "num" -> x.v # "0"
      [] x.t = "str" -> x.v # ""
      [] x.t = "bool" -> x.v = "true"
      [] x.t = "arr" -> Len(x.v) > 0
      [] OTHER -> TRUE

\* ToBoolean(x), as in `if (x)`, `!x`, `x || y`, `x && y`
Truthy(x) ==
    CASE x.t \in {"undef", "null"} -> FALSE
      [] x.t = "num" -> x.v # "0"
      [] x.t = "str" -> x.v # ""
      [] x.t = "bool" -> x.v = "true"
      [] OTHER -> TRUE

\* Array.isArray
IsArray(x) == x.t = "arr"

\* x.key and x?.key on a value that is not null or undefined
RECURSIVE Lookup(_, _, _)
Lookup(pairs, key, i) ==
    IF i > Len(pairs) THEN Undef
    ELSE IF pairs[i][1] = key THEN pairs[i][2] ELSE Lookup(pairs, key, i + 1)

\* x?.key
Get(x, key) == IF x.t = "obj" THEN Lookup(x.v, key, 1) ELSE Undef

\* String(x) for a primitive
ToStr(x) ==
    CASE x.t = "undef" -> "undefined" [] x.t = "null" -> "null"
      [] x.t = "arr" -> "<array>" [] x.t = "obj" -> "[object Object]"
      [] OTHER -> x.v

(***************************************************************************)
(* JSON text is a sequence of tokens.  JSON.stringify(value, null, 2)      *)
(* puts a line break and two spaces per level before every element.        *)
(***************************************************************************)
NumLits == {"0", "1", "2", "3", "4"}
Whitespace == {"\n", "  ", " "}

RECURSIVE Indent(_)
Indent(depth) == IF depth = 0 THEN <<>> ELSE <<"  ">> \o Indent(depth - 1)

NewLine(pretty, depth) == IF pretty THEN <<"\n">> \o Indent(depth) ELSE <<>>

RECURSIVE StringifyAt(_, _, _), StringifyItems(_, _, _, _), StringifyProps(_, _, _, _, _)
StringifyAt(x, pretty, depth) ==
    CASE x.t = "num" -> <<x.v>>
      [] x.t = "bool" -> <<x.v>>
      [] x.t = "str" -> <<"\"", x.v, "\"">>
      [] x.t \in {"null", "undef"} -> <<"null">>
      [] x.t = "arr" ->
            IF Len(x.v) = 0 THEN <<"[", "]">>
            ELSE <<"[">> \o StringifyItems(x.v, 1, pretty, depth + 1)
                         \o NewLine(pretty, depth) \o <<"]">>
      [] OTHER ->
            LET body == StringifyProps(x.v, 1, pretty, depth + 1, TRUE)
            IN  IF Len(body) = 0 THEN <<"{", "}">>
                ELSE <<"{">> \o body \o NewLine(pretty, depth) \o <<"}">>

StringifyItems(seq, i, pretty, depth) ==
    IF i > Len(seq) THEN <<>>
    ELSE (IF i > 1 THEN <<",">> ELSE <<>>) \o NewLine(pretty, depth)
         \o StringifyAt(seq[i], pretty, depth)
         \o StringifyItems(seq, i + 1, pretty, depth)

\* a property whose value is undefined is left out
StringifyProps(pairs, i, pretty, depth, first) ==
    IF i > Len(pairs) THEN <<>>
    ELSE IF pairs[i][2].t = "undef"
         THEN StringifyProps(pairs, i + 1, pretty, depth, first)
         ELSE (IF first THEN <<>> ELSE <<",">>) \o NewLine(pretty, depth)
              \o <<"\"", pairs[i][1], "\"", ":">>
              \o (IF pretty THEN <<" ">> ELSE <<>>)
              \o StringifyAt(pairs[i][2], pretty, depth)
              \o StringifyProps(pairs, i + 1, pretty, depth, FALSE)

\* JSON.stringify(x) and JSON.stringify(x, null, 2) for x other than undefined
Stringify(x) == StringifyAt(x, FALSE, 0)
StringifyPretty(x) == StringifyAt(x, TRUE, 0)

ParseFail == [ok |-> FALSE, val |-> Undef, next |-> 0]
ParseOk(val, next) == [ok |-> TRUE, val |-> val, next |-> next]

RECURSIVE SkipWs(_, _)
SkipWs(toks, i) ==
    IF i <= Len(toks) /\ toks[i] \in Whitespace THEN SkipWs(toks, i + 1) ELSE i

RECURSIVE ParseValue(_, _), ParseItems(_, _, _), ParseProps(_, _, _)
ParseValue(toks, i0) ==
    LET i == SkipWs(toks, i0)
    IN  IF i > Len(toks) THEN ParseFail
        ELSE CASE toks[i] = "[" ->
                    IF SkipWs(toks, i + 1) <= Len(toks) /\ toks[SkipWs(toks, i + 1)] = "]"
                    THEN ParseOk(Arr(<<>>), SkipWs(toks, i + 1) + 1)
                    ELSE ParseItems(toks, i + 1, <<>>)
               [] toks[i] = "{" ->
                    IF SkipWs(toks, i + 1) <= Len(toks) /\ toks[SkipWs(toks, i + 1)] = "}"
                    THEN ParseOk(Obj(<<>>), SkipWs(toks, i + 1) + 1)
                    ELSE ParseProps(toks, i + 1, <<>>)
               [] toks[i] = "\"" ->
                    IF i + 2 <= Len(toks) /\ toks[i + 2] = "\""
                    THEN ParseOk(Str(toks[i + 1]), i + 3) ELSE ParseFail
               [] toks[i] = "null" -> ParseOk(Null, i + 1)
               [] toks[i] \in {"true", "false"} -> ParseOk(Bool(toks[i]), i + 1)
               [] toks[i] \in NumLits -> ParseOk(Num(toks[i]), i + 1)
               [] OTHER -> ParseFail

ParseItems(toks, i0, acc) ==
    LET r == ParseValue(toks, i0)
        j == SkipWs(toks, r.next)
    IN  IF ~r.ok \/ j > Len(toks) THEN ParseFail
        ELSE IF toks[j] = "," THEN ParseItems(toks, j + 1, Append(acc, r.val))
        ELSE IF toks[j] = "]" THEN ParseOk(Arr(Append(acc, r.val)), j + 1)
        ELSE ParseFail

ParseProps(toks, i0, acc) ==
    LET i == SkipWs(toks, i0)
    IN  IF i + 3 > Len(toks) \/ toks[i] # "\"" \/ toks[i + 2] # "\"" THEN ParseFail
        ELSE LET c == SkipWs(toks, i + 3)
             IN  IF c > Len(toks) \/ toks[c] # ":" THEN ParseFail
                 ELSE LET r == ParseValue(toks, c + 1)
                          j == SkipWs(toks, r.next)
                      IN  IF ~r.ok \/ j > Len(toks) THEN ParseFail
                          ELSE IF toks[j] = ","
                               THEN ParseProps(toks, j + 1, Append(acc, <<toks[i + 1], r.val>>))
                          ELSE IF toks[j] = "}"
                               THEN ParseOk(Obj(Append(acc, <<toks[i + 1], r.val>>)), j + 1)
                          ELSE ParseFail

\* JSON.parse: [ok |-> FALSE] stands for the SyntaxError it throws
JsonParse(toks) ==
    LET r == ParseValue(toks, 1)
    IN  IF r.ok /\ SkipWs(toks, r.next) > Len(toks) THEN r ELSE ParseFail

(***************************************************************************)
(* Requests                                                                *)
(***************************************************************************)
Requests == {1, 2}

Absent == [present |-> FALSE, val |-> <<>>]
Hdr(s) == [present |-> TRUE, val |-> s]

\* request.headers.get(name) || ''
HeaderOrEmpty(h) == IF h.present THEN h.val ELSE <<>>

P_top == <<"/", "_", "p", "h", "p", "_", "l", "o", "g", "_", "t", "o", "p">>
P_last == <<"/", "_", "p", "h", "p", "_", "l", "o", "g", "_", "l", "a", "s", "t">>
P_bare == <<"/", "_", "p", "h", "p", "_", "l", "o", "g">>
P_bogus == <<"/", "_", "p", "h", "p", "_", "l", "o", "g", "_", "b", "o", "g", "u", "s">>
P_upper == <<"/", "_", "P", "H", "P", "_", "L", "O", "G", "_", "T", "O", "P">>
P_apiphp == <<"/", "_", "p", "h", "p", "_", "l", "o", "g", ".", "p", "h", "p">>
P_php == <<"/", "a", ".", "p", "h", "p">>
P_plain == <<"/", "i", "n", "d", "e", "x">>

AllPaths == {P_top, P_last, P_bare, P_bogus, P_upper, P_apiphp, P_php, P_plain}
SupportedPaths == {P_top, P_last, P_bare}
UnknownApiPaths == {P_bogus, P_upper, P_apiphp}

Tok == <<"t", "k">>
Bearer == <<"B", "e", "a", "r", "e", "r", " ">>
Basic == <<"B", "a", "s", "i", "c", " ">>
TokenConfigs == {<<>>, Tok}

H_correct == Hdr(Bearer \o Tok)
H_wrong == Hdr(Bearer \o Tok \o <<"k">>)
H_basic == Hdr(Basic \o Tok)
AuthHeaders == {Absent, H_correct, H_wrong, H_basic}

UA_MAX == 140
UA_short == Hdr(<<"c", "u", "r", "l">>)
UA_long == Hdr([i \in 1..(UA_MAX + LongUaExtra) |-> "x"])
UserAgents == {Absent, UA_short, UA_long}

OTHER_WORKER_DOMAIN == "svc.example"
PLAIN_DOMAIN == "plain.example"
Hosts == {OTHER_WORKER_DOMAIN, PLAIN_DOMAIN}

\* request.cf as the edge supplies it
CF_full == Obj(<<<<"country", Str("DE")>>, <<"region", Str("BE")>>, <<"asn", Num("3")>>>>)
CF_untyped == Obj(<<<<"country", Num("4")>>, <<"region", Null>>, <<"asn", Str("AS3")>>>>)
CF_empty == Obj(<<>>)
CfValues == {Undef, CF_full, CF_untyped, CF_empty}

Request(path, auth, ua, host, cf) ==
    [path |-> path, auth |-> auth, ua |-> ua, host |-> host, cf |-> cf]

NoRequest == Request(<<>>, Absent, Absent, "", Undef)

RequestInputs ==
    {Request(P_top, a, Absent, PLAIN_DOMAIN, Undef) : a \in AuthHeaders}
    \cup {Request(P_bogus, a, Absent, PLAIN_DOMAIN, Undef) : a \in {Absent, H_correct, H_wrong}}
    \cup {Request(p, a, Absent, PLAIN_DOMAIN, Undef) : p \in {P_last, P_upper}, a \in {Absent, H_correct}}
    \cup {Request(P_bare, H_correct, Absent, PLAIN_DOMAIN, Undef)}
    \cup {Request(P_apiphp, a, UA_short, PLAIN_DOMAIN, CF_full) : a \in {Absent, H_correct}}
    \cup {Request(P_php, Absent, u, PLAIN_DOMAIN, Undef) : u \in UserAgents}
    \cup {Request(P_php, Absent, UA_short, PLAIN_DOMAIN, c) : c \in CfValues}
    \cup {Request(p, Absent, UA_short, OTHER_WORKER_DOMAIN, Undef) : p \in {P_php, P_plain}}
    \cup {Request(P_plain, Absent, Absent, PLAIN_DOMAIN, Undef)}

(***************************************************************************)
(* Telemetry (index.ts 105-135)                                            *)
(***************************************************************************)
\* (mutant) the ASN checked for its type as country and region are
extractCfInfo_asnTyped(q) ==
    LET cf == IF Truthy(q.cf) THEN q.cf ELSE Obj(<<>>)
        country == Get(cf, "country")
        region == Get(cf, "region")
        asn == Get(cf, "asn")
    IN  [country |-> IF TypeOf(country) = "string" THEN country.v ELSE "ZZ",
         region |-> IF TypeOf(region) = "string" THEN region.v ELSE "",
         asn |-> IF TypeOf(asn) = "number" THEN ToStr(asn) ELSE "0"]

\* extractCfInfo
extractCfInfo(q) ==
    LET cf == IF Truthy(q.cf) THEN q.cf ELSE Obj(<<>>)
        country == Get(cf, "country")
        region == Get(cf, "region")
        asn == Get(cf, "asn")
    IN  [country |-> IF TypeOf(country) = "string" THEN country.v ELSE "ZZ",
         region |-> IF TypeOf(region) = "string" THEN region.v ELSE "",
         asn |-> IF asn.t \notin {"null", "undef"} THEN ToStr(asn) ELSE "0"]

\* (mutant) the header as it came
UserAgent_untruncated(q) == HeaderOrEmpty(q.ua)

\* index.ts 117-118: uaHeader.slice(0, 140)
UserAgent(q) == Slice(HeaderOrEmpty(q.ua), 0, UA_MAX)

\* the record handed to env.PHP_LOG_AE.writeDataPoint; uuid stands for crypto.randomUUID()
DataPoint(q, pathname, uuid) ==
    LET cf == extractCfInfo(q)
    IN  [blobs |-> <<pathname, cf.country, cf.region, UserAgent(q), cf.asn>>,
         doubles |-> <<1>>,
         indexes |-> <<uuid>>]

\* What writeDataPoint may do: return, throw, or hand back a promise
WriteOutcomes == {"returns", "throws", "promise"}

(***************************************************************************)
(* Responses                                                               *)
(***************************************************************************)
NoResponse == [kind |-> "none", by |-> "", status |-> 0, body |-> <<>>, ctype |-> "", xcache |-> ""]

\* new Response(text, { status })
TextResponse(status, body) ==
    [kind |-> "response", by |-> "gateway", status |-> status, body |-> body,
     ctype |-> "text/plain", xcache |-> ""]

\* new Response(json, { headers: { content-type: application/json, x-cache } })
JsonResponse(body, xcache) ==
    [kind |-> "response", by |-> "gateway", status |-> 200, body |-> body,
     ctype |-> "application/json", xcache |-> xcache]

\* what the origin or the bound service answered, passed through
Forwarded(dest, status) ==
    [kind |-> "response", by |-> dest, status |-> status, body |-> <<"upstream body">>,
     ctype |-> "text/html", xcache |-> ""]

\* the handler's promise rejected: no Response was produced
Unhandled(msg) ==
    [kind |-> "unhandled", by |-> "runtime", status |-> 0, body |-> <<msg>>,
     ctype |-> "", xcache |-> ""]

(***************************************************************************)
(* Reporting gateway (index.ts 137-220)                                    *)
(***************************************************************************)
CACHE_TTL_SECONDS == 60

\* authHeader.startsWith('Bearer ') ? authHeader.slice(7) : ''
BearerToken(authHeader) ==
    IF StartsWith(authHeader, Bearer) THEN SliceFrom(authHeader, 7) ELSE <<>>

\* (mutant) a credential that starts with the token passes
Authorized_prefix(token, auth) ==
    token = <<>> \/ StartsWith(BearerToken(HeaderOrEmpty(auth)), token)

\* index.ts 138-145: FALSE when the handler answers 401
Authorized(token, auth) ==
    IF token # <<>>
    THEN BearerToken(HeaderOrEmpty(auth)) = token
    ELSE TRUE

\* index.ts 149-180: the query the switch selects; "default" is its default branch
SqlFor(pathname) ==
    CASE pathname = P_last -> "last"
      [] pathname = P_bare -> "top"
      [] pathname = P_top -> "top"
      [] OTHER -> "default"

\* the two body texts of index.ts 143 and 179
UnauthorizedBody == <<"Unauthorized", "\n">>
NotFoundBody == <<"API not found", "\n">>

\* index.ts 222-228
Route(domain) == IF domain = OTHER_WORKER_DOMAIN THEN "service" ELSE "origin"

\* KV: one entry per key
NoEntry == [present |-> FALSE, text |-> <<>>, expiresAt |-> 0, writer |-> 0, writtenAt |-> 0]
Entry(text, ttl, writer, t) ==
    [present |-> TRUE, text |-> text, expiresAt |-> t + ttl, writer |-> writer, writtenAt |-> t]

\* (mutant) the time to live taken as one second
Live_oneSecond(e, t) == e.present /\ t < e.writtenAt + 1

\* an entry is served until its expirationTtl has passed
Live(e, t) == e.present /\ t < e.expiresAt

\* the key of index.ts 186 and 211
KvKey(pathname) == pathname

\* env.PHP_LOG_KV.get(key, { type: 'json' }): the parse result, null when absent
KvGetJson(store, key, t) ==
    IF Live(store[key], t)
    THEN JsonParse(store[key].text)
    ELSE ParseOk(Null, 0)

\* Rows the analytics endpoint may answer with in `data`
Row(path, hits) == Obj(<<<<"path", Str(path)>>, <<"hits", Num(hits)>>>>)
DataValues == {Arr(<<>>), Arr(<<Row("/b.php", "2"), Row("/a.php", "1")>>)}

\* What the upstream fetch may produce
UpstreamOutcomes ==
    {[kind |-> "neterr", status |-> 0, text |-> "", textOk |-> TRUE, json |-> FALSE, data |-> Undef]}
    \cup {[kind |-> "http", status |-> 500, text |-> "denied", textOk |-> b, json |-> FALSE, data |-> Undef] :
            b \in BOOLEAN}
    \cup {[kind |-> "http", status |-> 403, text |-> "denied", textOk |-> TRUE, json |-> FALSE, data |-> Undef]}
    \cup {[kind |-> "http", status |-> 200, text |-> "<html>", textOk |-> TRUE, json |-> FALSE, data |-> Undef]}
    \cup {[kind |-> "http", status |-> 200, text |-> "", textOk |-> TRUE, json |-> TRUE, data |-> d] :
            d \in DataValues}

\* response.ok
ResponseOk(status) == status \in 200..299

\* (mutant) the status left out of the message
UpstreamErrorBody_noStatus(u) ==
    <<"Error: ", "AE API: ", "failed", ": ", IF u.textOk THEN u.text ELSE "", "\n">>

\* `${String(err)}\n` for the Error thrown at index.ts 206
UpstreamErrorBody(u) ==
    <<"Error: ", "AE API: ", ToString(u.status), ": ", IF u.textOk THEN u.text ELSE "", "\n">>

(***************************************************************************)
(* The fetch handler, one action per stretch between two awaits            *)
(***************************************************************************)
NoCount == [kvGet |-> 0, upstream |-> 0, kvPut |-> 0, sink |-> 0, routed |-> FALSE]

Finish(r, response) ==
    /\ resp' = [resp EXCEPT ![r] = response]
    /\ pc' = [pc EXCEPT ![r] = "done"]

\* one answer of a collaborator, as request r saw it
\* (seen, at: the raw entry a cache read found under its key, and when)
Ob(op, ok, status, seen, at) == [op |-> op, ok |-> ok, status |-> status, seen |-> seen, at |-> at]

Observe(r, o) == obs' = [obs EXCEPT ![r] = Append(@, o)]

\* (mutant) no try/catch around the write
Dispatch_telemetryThrows(q, token, w) ==
    IF isPhpPath(q.path) /\ w = "throws"
    THEN [next |-> "done", resp |-> Unhandled("writeDataPoint threw"), routed |-> FALSE]
    ELSE IF isAPIPath(q.path) /\ ~Authorized(token, q.auth)
    THEN [next |-> "done", resp |-> TextResponse(401, UnauthorizedBody), routed |-> FALSE]
    ELSE IF isAPIPath(q.path) /\ SqlFor(q.path) = "default"
    THEN [next |-> "done", resp |-> TextResponse(404, NotFoundBody), routed |-> TRUE]
    ELSE IF isAPIPath(q.path)
    THEN [next |-> "kvGet", resp |-> NoResponse, routed |-> TRUE]
    ELSE [next |-> "forward", resp |-> NoResponse, routed |-> FALSE]

\* (mutant) the handler awaits the promise of the write before going on
Dispatch_awaitsWrite(q, token, w) ==
    IF isPhpPath(q.path) /\ w = "promise"
    THEN [next |-> "awaitWrite", resp |-> NoResponse, routed |-> FALSE]
    ELSE IF isAPIPath(q.path) /\ ~Authorized(token, q.auth)
    THEN [next |-> "done", resp |-> TextResponse(401, UnauthorizedBody), routed |-> FALSE]
    ELSE IF isAPIPath(q.path) /\ SqlFor(q.path) = "default"
    THEN [next |-> "done", resp |-> TextResponse(404, NotFoundBody), routed |-> TRUE]
    ELSE IF isAPIPath(q.path)
    THEN [next |-> "kvGet", resp |-> NoResponse, routed |-> TRUE]
    ELSE [next |-> "forward", resp |-> NoResponse, routed |-> FALSE]

\* (mutant) the path switch before the token check
Dispatch_switchFirst(q, token, w) ==
    IF isAPIPath(q.path) /\ SqlFor(q.path) = "default"
    THEN [next |-> "done", resp |-> TextResponse(404, NotFoundBody), routed |-> TRUE]
    ELSE IF isAPIPath(q.path) /\ ~Authorized(token, q.auth)
    THEN [next |-> "done", resp |-> TextResponse(401, UnauthorizedBody), routed |-> FALSE]
    ELSE IF isAPIPath(q.path)
    THEN [next |-> "kvGet", resp |-> NoResponse, routed |-> TRUE]
    ELSE [next |-> "forward", resp |-> NoResponse, routed |-> FALSE]

\* (mutant) the 401 is prepared but the handler goes on to the cache
Dispatch_no401Return(q, token, w) ==
    IF isAPIPath(q.path) /\ ~Authorized(token, q.auth)
    THEN [next |-> IF SqlFor(q.path) = "default" THEN "done" ELSE "kvGet",
          resp |-> TextResponse(401, UnauthorizedBody), routed |-> FALSE]
    ELSE IF isAPIPath(q.path) /\ SqlFor(q.path) = "default"
    THEN [next |-> "done", resp |-> TextResponse(404, NotFoundBody), routed |-> TRUE]
    ELSE IF isAPIPath(q.path)
    THEN [next |-> "kvGet", resp |-> NoResponse, routed |-> TRUE]
    ELSE [next |-> "forward", resp |-> NoResponse, routed |-> FALSE]

\* index.ts 114-228 up to the first await: where the handler goes after the
\* telemetry block, whose try/catch keeps w, the outcome of writeDataPoint,
\* away from the response
Dispatch(q, token, w) ==
    IF isAPIPath(q.path)
    THEN IF ~Authorized(token, q.auth)
         THEN [next |-> "done", resp |-> TextResponse(401, UnauthorizedBody), routed |-> FALSE]
         ELSE IF SqlFor(q.path) = "default"
              THEN [next |-> "done", resp |-> TextResponse(404, NotFoundBody), routed |-> TRUE]
              ELSE IF SqlFor(q.path) # ""
                   THEN [next |-> "kvGet", resp |-> NoResponse, routed |-> TRUE]
                   ELSE [next |-> "forward", resp |-> NoResponse, routed |-> TRUE]
    ELSE [next |-> "forward", resp |-> NoResponse, routed |-> FALSE]

\* index.ts 114-126: the records handed to writeDataPoint by request r
Submissions(q, r) == IF isPhpPath(q.path) THEN <<DataPoint(q, q.path, r)>> ELSE <<>>

\* index.ts 121-134: the promise registered with ctx.waitUntil, if any
TelemetryAfterCall(q, w) ==
    IF ~isPhpPath(q.path) THEN "none"
    ELSE CASE w = "throws" -> "threw"
           [] w = "returns" -> "pendingValue"
           [] OTHER -> "pendingPromise"

\* the request arrives; the handler runs to its first await or to its return
Begin(r) ==
    /\ pc[r] = "idle"
    /\ \A o \in Requests : o < r => pc[o] # "idle"
    /\ \E q \in RequestInputs, w \in WriteOutcomes :
          LET d == Dispatch(q, QUERY_TOKEN, w)
          IN  /\ req' = [req EXCEPT ![r] = q]
              /\ events' = [events EXCEPT ![r] = Submissions(q, r)]
              /\ tele' = [tele EXCEPT ![r] = TelemetryAfterCall(q, w)]
              /\ logs' = [logs EXCEPT ![r] =
                            IF isPhpPath(q.path) /\ w = "throws"
                            THEN <<"Failed to log .php attempt">> ELSE <<>>]
              /\ cnt' = [cnt EXCEPT ![r].routed = d.routed,
                                    ![r].sink = Len(Submissions(q, r))]
              /\ pc' = [pc EXCEPT ![r] = d.next]
              /\ resp' = [resp EXCEPT ![r] = d.resp]
    /\ UNCHANGED <<QUERY_TOKEN, now, kv, local, obs, fnVars>>

\* the promise of the write settles; a rejection reaches the .catch of index.ts 127
TelemetryResolves(r) ==
    /\ tele[r] \in {"pendingValue", "pendingPromise"}
    /\ tele' = [tele EXCEPT ![r] = "fulfilled"]
    /\ UNCHANGED <<QUERY_TOKEN, now, kv, pc, req, local, resp, events, logs, obs, cnt, fnVars>>

TelemetryRejects(r) ==
    /\ tele[r] = "pendingPromise"
    /\ tele' = [tele EXCEPT ![r] = "rejected"]
    /\ logs' = [logs EXCEPT ![r] = Append(@, "AE writeDataPoint failed")]
    /\ UNCHANGED <<QUERY_TOKEN, now, kv, pc, req, local, resp, events, obs, cnt, fnVars>>

\* index.ts 186: the read rejects; nothing around it catches
KvGetThrows(r) ==
    /\ pc[r] = "kvGet"
    /\ Finish(r, Unhandled("KV get rejected"))
    /\ Observe(r, Ob("kvGet", FALSE, 0, NoEntry, 0))
    /\ cnt' = [cnt EXCEPT ![r].kvGet = @ + 1]
    /\ UNCHANGED <<QUERY_TOKEN, now, kv, req, local, tele, events, logs, fnVars>>

\* index.ts 186-192
KvGetReturns(r) ==
    /\ pc[r] = "kvGet"
    /\ LET key == KvKey(req[r].path)
           got == KvGetJson(kv, key, now)
       IN  /\ IF ~got.ok THEN Finish(r, Unhandled("KV get rejected"))
              ELSE IF Truthy(got.val)
                   THEN Finish(r, JsonResponse(StringifyPretty(got.val), "HIT"))
                   ELSE /\ pc' = [pc EXCEPT ![r] = "aeFetch"]
                        /\ UNCHANGED resp
           /\ Observe(r, Ob("kvGet", TRUE, 0, kv[key], now))
    /\ cnt' = [cnt EXCEPT ![r].kvGet = @ + 1]
    /\ UNCHANGED <<QUERY_TOKEN, now, kv, req, local, tele, events, logs, fnVars>>

\* index.ts 196-209 and 216-218: the upstream query and the reading of its answer
AeFetch(r) ==
    /\ pc[r] = "aeFetch"
    /\ \E u \in UpstreamOutcomes :
          /\ Observe(r, Ob("aeFetch", u.kind = "http" /\ u.json, u.status, NoEntry, 0))
          /\ IF u.kind = "neterr"
             THEN Finish(r, TextResponse(500, <<"TypeError: ", "fetch failed", "\n">>)) /\ UNCHANGED local
             ELSE IF ~ResponseOk(u.status)
                  THEN Finish(r, TextResponse(500, UpstreamErrorBody(u))) /\ UNCHANGED local
                  ELSE IF ~u.json
                       THEN /\ Finish(r, TextResponse(500, <<"SyntaxError: ", "Unexpected token", "\n">>))
                            /\ UNCHANGED local
                       ELSE /\ local' = [local EXCEPT ![r] = u.data]
                            /\ pc' = [pc EXCEPT ![r] = "kvPut"]
                            /\ UNCHANGED resp
    /\ cnt' = [cnt EXCEPT ![r].upstream = @ + 1]
    /\ UNCHANGED <<QUERY_TOKEN, now, kv, req, tele, events, logs, fnVars>>

\* index.ts 211-215
KvPutReturns(r) ==
    /\ pc[r] = "kvPut"
    /\ kv' = [kv EXCEPT ![KvKey(req[r].path)] =
                Entry(Stringify(local[r]), CACHE_TTL_SECONDS, r, now)]
    /\ Finish(r, JsonResponse(StringifyPretty(local[r]), "MISS"))
    /\ Observe(r, Ob("kvPut", TRUE, 0, NoEntry, 0))
    /\ cnt' = [cnt EXCEPT ![r].kvPut = @ + 1]
    /\ UNCHANGED <<QUERY_TOKEN, now, req, local, tele, events, logs, fnVars>>

\* index.ts 211 and 216-218: the write rejects
KvPutThrows(r) ==
    /\ pc[r] = "kvPut"
    /\ Finish(r, TextResponse(500, <<"Error: ", "KV put failed", "\n">>))
    /\ Observe(r, Ob("kvPut", FALSE, 0, NoEntry, 0))
    /\ cnt' = [cnt EXCEPT ![r].kvPut = @ + 1]
    /\ UNCHANGED <<QUERY_TOKEN, now, kv, req, local, tele, events, logs, fnVars>>

\* index.ts 222-228: the destination answers
ForwardReturns(r) ==
    /\ pc[r] = "forward"
    /\ Finish(r, Forwarded(Route(req[r].host), 200))
    /\ Observe(r, Ob("forward", TRUE, 200, NoEntry, 0))
    /\ UNCHANGED <<QUERY_TOKEN, now, kv, req, local, tele, events, logs, cnt, fnVars>>

\* index.ts 222-228: the forwarding fetch rejects
ForwardThrows(r) ==
    /\ pc[r] = "forward"
    /\ Finish(r, Unhandled("fetch rejected"))
    /\ Observe(r, Ob("forward", FALSE, 0, NoEntry, 0))
    /\ UNCHANGED <<QUERY_TOKEN, now, kv, req, local, tele, events, logs, cnt, fnVars>>

\* time passes; only the age of cache entries matters, so the clock stands
\* at 0 until the first entry is written
Tick ==
    /\ \E k \in AllPaths : kv[k].present
    /\ now < MaxTicks * TickSeconds
    /\ now' = now + TickSeconds
    /\ UNCHANGED <<QUERY_TOKEN, kv, pc, req, local, resp, tele, events, logs, obs, cnt, fnVars>>

HandlerInit ==
    /\ now = 0
    /\ kv = [k \in AllPaths |-> NoEntry]
    /\ pc = [r \in Requests |-> "idle"]
    /\ req = [r \in Requests |-> NoRequest]
    /\ local = [r \in Requests |-> Undef]
    /\ resp = [r \in Requests |-> NoResponse]
    /\ tele = [r \in Requests |-> "none"]
    /\ events = [r \in Requests |-> <<>>]
    /\ logs = [r \in Requests |-> <<>>]
    /\ obs = [r \in Requests |-> <<>>]
    /\ cnt = [r \in Requests |-> NoCount]

Init ==
    /\ QUERY_TOKEN \in TokenConfigs
    /\ HandlerInit
    /\ fnArg = <<>>
    /\ fnRes = <<>>

Next ==
    \/ \E r \in Requests : Begin(r)
    \/ \E r \in Requests : TelemetryResolves(r)
    \/ \E r \in Requests : TelemetryRejects(r)
    \/ \E r \in Requests : KvGetThrows(r)
    \/ \E r \in Requests : KvGetReturns(r)
    \/ \E r \in Requests : AeFetch(r)
    \/ \E r \in Requests : KvPutReturns(r)
    \/ \E r \in Requests : KvPutThrows(r)
    \/ \E r \in Requests : ForwardReturns(r)
    \/ \E r \in Requests : ForwardThrows(r)
    \/ Tick

Spec == Init /\ [][Next]_vars

(***************************************************************************)
(* Vocabulary of the properties                                            *)
(***************************************************************************)
Done(r) == pc[r] = "done"
Started(r) == pc[r] # "idle"

\* the paths of the catalogue under the reporting prefix, and those the PHP pattern flags
ReportingPaths == SupportedPaths \cup UnknownApiPaths
FlaggedPaths == {P_php, P_apiphp}

\* the request presents the configured token as its bearer credential
PresentsToken(q) == q.auth = Hdr(Bearer \o QUERY_TOKEN)

\* access control lets the request through
Admitted(q) == QUERY_TOKEN = <<>> \/ PresentsToken(q)

\* the observations of request r made by operation op
ObsOf(r, op) == {i \in 1..Len(obs[r]) : obs[r][i].op = op}

\* request r missed the cache, got rows from upstream and stored them
FreshlyServed(r) ==
    /\ Done(r)
    /\ req[r].path \in SupportedPaths
    /\ Admitted(req[r])
    /\ \E i \in ObsOf(r, "kvGet") : obs[r][i].ok /\ ~obs[r][i].seen.present
    /\ \E i \in ObsOf(r, "aeFetch") : obs[r][i].ok /\ obs[r][i].status = 200
    /\ \E i \in ObsOf(r, "kvPut") : obs[r][i].ok

\* request r2 read, within the TTL, the entry request r1 had written
ReadWithinTtl(r1, r2) ==
    /\ Done(r2)
    /\ req[r2].path = req[r1].path
    /\ \E i \in ObsOf(r2, "kvGet") :
          /\ obs[r2][i].ok
          /\ obs[r2][i].seen.present
          /\ obs[r2][i].seen.writer = r1
          /\ obs[r2][i].at < obs[r2][i].seen.writtenAt + 60

(***************************************************************************)
(* C1 (as stated): an unknown path under the reporting prefix is answered  *)
(* 404 whatever the configured token and the presented credential.         *)
(***************************************************************************)
C1_UnknownPathAlways404 ==
    \A r \in Requests :
        Done(r) /\ req[r].path \in UnknownApiPaths => resp[r].status = 404

(***************************************************************************)
(* C1 (amended): an unknown path under the reporting prefix is answered    *)
(* 404 when access control admits the request (empty token, or the token   *)
(* presented as bearer credential) and 401 otherwise.                      *)
(***************************************************************************)
C1_UnknownPath404WhenAdmitted ==
    \A r \in Requests :
        Started(r) /\ req[r].path \in UnknownApiPaths =>
            /\ Done(r)
            /\ resp[r].kind = "response"
            /\ resp[r].by = "gateway"
            /\ IF Admitted(req[r])
               THEN resp[r].status = 404 /\ resp[r].body = NotFoundBody
               ELSE resp[r].status = 401 /\ resp[r].body = UnauthorizedBody

C1_Witness ==
    \E r1, r2 \in Requests :
        /\ QUERY_TOKEN # <<>>
        /\ req[r1].path = P_bogus /\ req[r1].auth = H_correct /\ resp[r1].status = 404
        /\ req[r2].path = P_upper /\ req[r2].auth = Absent /\ resp[r2].status = 401

(***************************************************************************)
(* C2: on a reporting-prefix path, with a non-empty configured token a     *)
(* request without the token as bearer credential is answered 401; with    *)
(* the token, or when the configured token is empty, handling proceeds to  *)
(* the routing switch.                                                     *)
(***************************************************************************)
C2_AccessControl ==
    \A r \in Requests :
        Started(r) /\ req[r].path \in ReportingPaths =>
            IF QUERY_TOKEN # <<>> /\ ~PresentsToken(req[r])
            THEN Done(r) /\ resp[r].status = 401 /\ ~cnt[r].routed
            ELSE cnt[r].routed /\ resp[r].status # 401

C2_Witness ==
    \E r1, r2 \in Requests :
        /\ QUERY_TOKEN = Tok
        /\ req[r1].path = P_top /\ req[r1].auth = H_wrong /\ resp[r1].status = 401
        /\ req[r2].path = P_top /\ req[r2].auth = H_correct /\ cnt[r2].routed
        /\ pc[r2] = "kvGet"

(***************************************************************************)
(* C3: a request that finds the cache empty and gets rows from upstream    *)
(* makes exactly one upstream query and answers MISS; a request that reads *)
(* the entry it wrote within 60 seconds answers HIT with the same payload  *)
(* and makes no upstream query.                                            *)
(***************************************************************************)
C3_MissThenHit ==
    /\ \A r \in Requests :
          FreshlyServed(r) =>
              /\ cnt[r].upstream = 1
              /\ resp[r].status = 200
              /\ resp[r].xcache = "MISS"
    /\ \A r1, r2 \in Requests :
          FreshlyServed(r1) /\ ReadWithinTtl(r1, r2) =>
              /\ resp[r2].status = 200
              /\ resp[r2].xcache = "HIT"
              /\ resp[r2].body = resp[r1].body
              /\ cnt[r2].upstream = 0

C3_Witness ==
    \E r1, r2 \in Requests :
        /\ FreshlyServed(r1) /\ ReadWithinTtl(r1, r2)
        /\ r1 # r2
        /\ now > 0
        /\ resp[r1].xcache = "MISS" /\ resp[r2].xcache = "HIT"
        /\ Len(resp[r2].body) > 2

(***************************************************************************)
(* C4: when the upstream query of a cache miss is answered with a          *)
(* non-success status, the response is 500, plain text, its body contains  *)
(* that status, and the request writes nothing to the cache.               *)
(***************************************************************************)
C4_UpstreamErrorIs500 ==
    \A r \in Requests :
        \A i \in ObsOf(r, "aeFetch") :
            obs[r][i].status # 0 /\ obs[r][i].status \notin 200..299 =>
                /\ Done(r)
                /\ resp[r].status = 500
                /\ resp[r].ctype = "text/plain"
                /\ \E j \in 1..Len(resp[r].body) : resp[r].body[j] = ToString(obs[r][i].status)
                /\ cnt[r].kvPut = 0
                /\ \A k \in AllPaths : ~(kv[k].present /\ kv[k].writer = r)
                /\ (\A o \in Requests : cnt[o].kvPut = 0) => ~kv[req[r].path].present

C4_Witness ==
    \E r \in Requests :
        /\ req[r].path = P_top
        /\ \E i \in ObsOf(r, "aeFetch") : obs[r][i].status = 500
        /\ resp[r].status = 500
        /\ ~kv[P_top].present

(***************************************************************************)
(* C5: for a request on a flagged path the response does not depend on the *)
(* telemetry write: it is the same whether the write returned, threw or    *)
(* rejected later, a failed write is logged, and it never turns the        *)
(* handling into a failure.                                                *)
(***************************************************************************)
C5_TelemetryNeverAltersResponse ==
    /\ \A r1, r2 \in Requests :
          /\ Done(r1) /\ Done(r2)
          /\ req[r1].path \in FlaggedPaths
          /\ req[r1] = req[r2]
          /\ obs[r1] = obs[r2]
          => /\ resp[r1].status = resp[r2].status
             /\ resp[r1].body = resp[r2].body
             /\ resp[r1].kind = resp[r2].kind
    /\ \A r \in Requests :
          Done(r) /\ req[r].path \in FlaggedPaths /\ (\A i \in 1..Len(obs[r]) : obs[r][i].ok)
          => resp[r].kind = "response"
    /\ \A r \in Requests :
          /\ tele[r] = "threw" => logs[r] = <<"Failed to log .php attempt">>
          /\ tele[r] = "rejected" => logs[r] = <<"AE writeDataPoint failed">>

C5_Witness ==
    /\ Done(1) /\ Done(2)
    /\ req[1].path = P_php
    /\ req[1] = req[2]
    /\ obs[1] = obs[2]
    /\ tele[1] = "threw"
    /\ tele[2] = "rejected"
    /\ resp[1] = resp[2]
    /\ resp[1].kind = "response"

(***************************************************************************)
(* C6: a request submits exactly one record to the sink when its path is   *)
(* flagged and none otherwise, whatever its later outcome; the user-agent  *)
(* blob of the record has at most 140 characters and is the start of the   *)
(* header.                                                                 *)
(***************************************************************************)
C6_OneSubmissionPerFlaggedRequest ==
    \A r \in Requests :
        Started(r) =>
            /\ Len(events[r]) = IF req[r].path \in FlaggedPaths THEN 1 ELSE 0
            /\ cnt[r].sink = Len(events[r])
            /\ \A i \in 1..Len(events[r]) :
                  LET ua == events[r][i].blobs[4]
                  IN  /\ Len(ua) <= 140
                      /\ req[r].ua.present => Len(ua) = Min(140, Len(req[r].ua.val))
                      /\ \A j \in 1..Len(ua) : ua[j] = req[r].ua.val[j]

C6_Witness ==
    \E r \in Requests :
        /\ Done(r)
        /\ req[r].ua = UA_long
        /\ Len(req[r].ua.val) > 140
        /\ Len(events[r]) = 1
        /\ Len(events[r][1].blobs[4]) = 140

(***************************************************************************)
(* C9 (as stated): a cache miss whose upstream answer has a success status *)
(* and a body that is not JSON is answered with a well-formed JSON         *)
(* payload, not with an error.                                             *)
(***************************************************************************)
C9_MalformedBodyIsEmptyResult ==
    \A r \in Requests :
        \A i \in ObsOf(r, "aeFetch") :
            obs[r][i].status \in 200..299 /\ ~obs[r][i].ok /\ Done(r) =>
                /\ resp[r].kind = "response"
                /\ resp[r].status = 200
                /\ resp[r].ctype = "application/json"

(***************************************************************************)
(* C10 (as stated): every request on a reporting-prefix path ends in a     *)
(* response of the gateway itself, a JSON body or a plain-text 401, 404 or *)
(* 500, whatever the cache and the upstream do; it is never forwarded and  *)
(* never ends in an unhandled failure.                                     *)
(***************************************************************************)
C10_ReportingAlwaysAnswered ==
    \A r \in Requests :
        Done(r) /\ req[r].path \in ReportingPaths =>
            /\ resp[r].kind = "response"
            /\ resp[r].by = "gateway"
            /\ \/ resp[r].ctype = "application/json" /\ resp[r].status = 200
               \/ resp[r].ctype = "text/plain" /\ resp[r].status \in {401, 404, 500}
            /\ ObsOf(r, "forward") = {}

(***************************************************************************)
(* isPhpPath as a function of its argument                                 *)
(***************************************************************************)
PathAlphabet == {".", "p", "P", "h", "H", "/", "?"}
BoundedPaths == UNION {[1..n -> PathAlphabet] : n \in 0..MaxPathLen}

T_php == <<"/", "a", ".", "p", "h", "p">>
T_phpSlash == <<"/", "a", ".", "p", "h", "p", "/", "b">>
T_phpQuery == <<"/", "a", ".", "p", "h", "p", "?", "x", "=", "1">>
T_phps == <<"/", "a", ".", "p", "h", "p", "s">>
T_aphp == <<"/", "a", "p", "h", "p">>
T_phpfoo == <<"/", "p", "h", "p", "f", "o", "o">>
T_upper == <<"/", "A", "D", "M", "I", "N", ".", "P", "H", "P">>
TablePaths == {T_php, T_phpSlash, T_phpQuery, T_phps, T_aphp, T_phpfoo, T_upper}

HandlerIdle == QUERY_TOKEN = <<>> /\ HandlerInit

InitPhp ==
    /\ HandlerIdle
    /\ fnArg \in BoundedPaths \cup TablePaths
    /\ fnRes = <<>>

ApplyIsPhpPath ==
    /\ fnRes = <<>>
    /\ fnRes' = <<isPhpPath(fnArg)>>
    /\ UNCHANGED <<handlerVars, fnArg>>

NextPhp == ApplyIsPhpPath

SpecPhp == InitPhp /\ [][NextPhp]_vars

\* p holds ".php", in any case, followed by the end of p, "/" or "?"
HasPhpSegment(p) ==
    \E i \in 1..Len(p) :
        /\ i + 3 <= Len(p)
        /\ p[i] = "."
        /\ p[i + 1] \in {"p", "P"}
        /\ p[i + 2] \in {"h", "H"}
        /\ p[i + 3] \in {"p", "P"}
        /\ (i + 3 = Len(p) \/ p[i + 4] \in {"/", "?"})

(***************************************************************************)
(* C7: isPhpPath(p) is true exactly when p holds ".php", in any case,      *)
(* followed by the end of the string, "/" or "?"; /a.php, /a.php/b and     *)
(* /a.php?x=1 are flagged, /a.phps and /aphp are not.                      *)
(***************************************************************************)
C7_IsPhpPathMatchesPattern ==
    fnRes # <<>> =>
        /\ fnRes[1] = HasPhpSegment(fnArg)
        /\ fnArg \in {T_php, T_phpSlash, T_phpQuery, T_upper} => fnRes[1]
        /\ fnArg \in {T_phps, T_aphp, T_phpfoo} => ~fnRes[1]

C7_Witness ==
    /\ fnArg = <<".", "P", "h", "p", "/">>
    /\ fnRes = <<TRUE>>

(***************************************************************************)
(* Response normaliser (analyticsClient.ts)                                *)
(***************************************************************************)
\* the element tests of the three every() calls
IsString(c) == TypeOf(c) = "string"
HasStringName(c) == Truthy(c) /\ TypeOf(Get(c, "name")) = "string"

\* extractCols: the column names, a sequence of strings
extractCols(body) ==
    IF ~Truthy(body) \/ TypeOf(body) # "object" THEN <<>>
    ELSE LET schemaCols == Get(Get(Get(body, "meta"), "schema"), "columns")
             metaCols == Get(Get(body, "meta"), "columns")
             topCols == Get(body, "columns")
         IN  IF IsArray(schemaCols) /\ \A i \in 1..Len(schemaCols.v) : HasStringName(schemaCols.v[i])
             THEN [i \in 1..Len(schemaCols.v) |-> ToStr(Get(schemaCols.v[i], "name"))]
             ELSE IF IsArray(metaCols) /\ \A i \in 1..Len(metaCols.v) : IsString(metaCols.v[i])
             THEN [i \in 1..Len(metaCols.v) |-> ToStr(metaCols.v[i])]
             ELSE IF IsArray(topCols) /\ \A i \in 1..Len(topCols.v) : IsString(topCols.v[i])
             THEN [i \in 1..Len(topCols.v) |-> ToStr(topCols.v[i])]
             ELSE <<>>

\* extractRows: the rows, a sequence of values
extractRows(body) ==
    IF ~Truthy(body) \/ TypeOf(body) # "object" THEN <<>>
    ELSE IF IsArray(Get(body, "data")) THEN Get(body, "data").v
    ELSE IF IsArray(Get(body, "rows")) THEN Get(body, "rows").v
    ELSE IF IsArray(Get(body, "result")) THEN Get(body, "result").v
    ELSE IF IsArray(Get(body, "items")) THEN Get(body, "items").v
    ELSE <<>>

\* x[i] for an index i; on null and undefined the access throws (see CanIndex).
\* Strings in the bodies considered have at most one character.
Index(x, i) ==
    CASE x.t = "arr" -> IF i < Len(x.v) THEN x.v[i + 1] ELSE Undef
      [] x.t = "obj" -> Get(x, ToString(i))
      [] x.t = "str" -> IF i = 0 /\ x.v # "" THEN x ELSE Undef
      [] OTHER -> Undef

CanIndex(x) == x.t \notin {"null", "undef"}

\* obj[key] = val: a new key goes last, a known key keeps its place
SetProp(pairs, key, val) ==
    IF \E i \in 1..Len(pairs) : pairs[i][1] = key
    THEN [i \in 1..Len(pairs) |-> IF pairs[i][1] = key THEN <<key, val>> ELSE pairs[i]]
    ELSE Append(pairs, <<key, val>>)

RECURSIVE ZipFrom(_, _, _, _)
\* analyticsClient.ts 72-76: the loop over the columns, from column i on
ZipFrom(cols, rowArr, i, pairs) ==
    IF i > Len(cols) THEN pairs
    ELSE ZipFrom(cols, rowArr, i + 1, SetProp(pairs, cols[i], Index(rowArr, i - 1)))

Returned(items) == [kind |-> "return", count |-> Len(items), items |-> items]
Thrown(what) == [kind |-> "throw", count |-> 0, items |-> <<what>>]

\* analyticsClient.ts 64-86: from the parsed body to the result
Normalize(body) ==
    LET cols == extractCols(body)
        rows == extractRows(body)
    IN  IF Len(cols) > 0 /\ Len(rows) > 0 /\ IsArray(rows[1])
        THEN IF \A k \in 1..Len(rows) : CanIndex(rows[k])
             THEN Returned([k \in 1..Len(rows) |-> Obj(ZipFrom(cols, rows[k], 1, <<>>))])
             ELSE Thrown(Str("TypeError"))
        ELSE Returned(rows)

\* analyticsClient.ts 46-87 on an upstream answer: a status, and a body that is JSON or not
queryAnalyticsEngine(ans) ==
    IF ~ResponseOk(ans.status) THEN Thrown(Str("Analytics API error"))
    ELSE Normalize(IF ans.json THEN ans.body ELSE Obj(<<>>))

(***************************************************************************)
(* The bodies the normaliser is applied to                                 *)
(***************************************************************************)
Missing == [t |-> "missing", v |-> ""]

\* an object of the given properties, those with value Missing left out
ObjOf(pairs) == Obj(SelectSeq(pairs, LAMBDA pr : pr[2].t # "missing"))

Named(n) == Obj(<<<<"name", Str(n)>>>>)

SchemaColumnValues ==
    {Missing, Arr(<<Named("a"), Named("b")>>), Arr(<<Named("a"), Null>>),
     Arr(<<Obj(<<<<"name", Num("1")>>>>)>>), Arr(<<>>)}
MetaColumnValues == {Missing, Arr(<<Str("c"), Str("d")>>), Arr(<<Str("c"), Num("1")>>)}
TopColumnValues == {Missing, Arr(<<Str("e")>>), Str("e")}

MetaValues ==
    {Missing, Null}
    \cup {ObjOf(<<<<"schema", ObjOf(<<<<"columns", sc>>>>)>>, <<"columns", mc>>>>) :
            sc \in SchemaColumnValues, mc \in MetaColumnValues}

Matrix == Arr(<<Arr(<<Num("1"), Num("2")>>), Arr(<<Num("3"), Num("4")>>)>>)
Ragged == Arr(<<Arr(<<Num("1")>>), Obj(<<<<"x", Num("1")>>>>), Num("2")>>)
Holed == Arr(<<Arr(<<Num("1"), Num("2")>>), Null>>)
Objects == Arr(<<Obj(<<<<"x", Num("1")>>>>)>>)

DataFieldValues == {Missing, Matrix, Ragged, Holed, Objects, Arr(<<>>), Num("1")}
RowsFieldValues == {Missing, Matrix, Num("2")}
ResultFieldValues == {Missing, Objects}
ItemsFieldValues == {Missing, Arr(<<Num("1"), Null>>)}

\* the three bodies the specification names
Example1 == ObjOf(<<<<"meta", ObjOf(<<<<"columns", Arr(<<Str("a"), Str("b")>>)>>>>)>>, <<"data", Matrix>>>>)
Example2 == ObjOf(<<<<"data", Objects>>>>)
Example3 == Obj(<<>>)

Bodies ==
    {Null, Num("1"), Str("x"), Arr(<<Arr(<<Num("1")>>)>>), Example1, Example2, Example3}
    \cup {ObjOf(<<<<"meta", m>>, <<"columns", tc>>, <<"data", d>>, <<"rows", rw>>,
                  <<"result", rs>>, <<"items", it>>>>) :
            m \in MetaValues, tc \in TopColumnValues, d \in DataFieldValues,
            rw \in RowsFieldValues, rs \in ResultFieldValues, it \in ItemsFieldValues}

Answer(status, json, body) == [status |-> status, json |-> json, body |-> body]

Answers ==
    {Answer(200, TRUE, b) : b \in Bodies}
    \cup {Answer(200, FALSE, Undef), Answer(500, FALSE, Undef), Answer(500, TRUE, Obj(<<>>))}

InitNorm ==
    /\ HandlerIdle
    /\ fnArg \in Answers
    /\ fnRes = <<>>

ApplyQueryAnalyticsEngine ==
    /\ fnRes = <<>>
    /\ fnRes' = <<queryAnalyticsEngine(fnArg)>>
    /\ UNCHANGED <<handlerVars, fnArg>>

NextNorm == ApplyQueryAnalyticsEngine

SpecNorm == InitNorm /\ [][NextNorm]_vars

(***************************************************************************)
(* The reference of C8                                                     *)
(***************************************************************************)
\* the candidate places of the column names, in priority order, as name lists
RefColumnCandidates(body) ==
    LET sc == Get(Get(Get(body, "meta"), "schema"), "columns")
        mc == Get(Get(body, "meta"), "columns")
        tc == Get(body, "columns")
    IN  <<[ok |-> sc.t = "arr" /\ \A i \in 1..Len(sc.v) :
                     sc.v[i].t = "obj" /\ Get(sc.v[i], "name").t = "str",
           names |-> IF sc.t = "arr" THEN [i \in 1..Len(sc.v) |-> Get(sc.v[i], "name").v] ELSE <<>>],
          [ok |-> mc.t = "arr" /\ \A i \in 1..Len(mc.v) : mc.v[i].t = "str",
           names |-> IF mc.t = "arr" THEN [i \in 1..Len(mc.v) |-> mc.v[i].v] ELSE <<>>],
          [ok |-> tc.t = "arr" /\ \A i \in 1..Len(tc.v) : tc.v[i].t = "str",
           names |-> IF tc.t = "arr" THEN [i \in 1..Len(tc.v) |-> tc.v[i].v] ELSE <<>>]>>

RefColumns(body) ==
    LET c == RefColumnCandidates(body)
    IN  IF \E i \in 1..3 : c[i].ok
        THEN c[CHOOSE i \in 1..3 : c[i].ok /\ \A j \in 1..(i - 1) : ~c[j].ok].names
        ELSE <<>>

RefRows(body) ==
    LET fields == <<"data", "rows", "result", "items">>
    IN  IF \E i \in 1..4 : Get(body, fields[i]).t = "arr"
        THEN Get(body, fields[CHOOSE i \in 1..4 :
                        /\ Get(body, fields[i]).t = "arr"
                        /\ \A j \in 1..(i - 1) : Get(body, fields[j]).t # "arr"]).v
        ELSE <<>>

\* a row zipped with the columns: column i names the row's element i, if it has one
RefZip(cols, row) ==
    Obj([i \in 1..Len(cols) |->
            <<cols[i], IF row.t = "arr" /\ i <= Len(row.v) THEN row.v[i] ELSE Undef>>])

RefItems(body) ==
    LET cols == RefColumns(body)
        rows == RefRows(body)
    IN  IF Len(cols) > 0 /\ Len(rows) > 0 /\ rows[1].t = "arr"
        THEN [k \in 1..Len(rows) |-> RefZip(cols, rows[k])]
        ELSE rows


(***************************************************************************)
(* C8 (as stated): for every upstream body queryAnalyticsEngine returns    *)
(* {count, items} equal to the reference: the first well-shaped column     *)
(* list, the first array of rows, rows zipped with the columns when the    *)
(* first row is an array and unchanged otherwise.                          *)
(***************************************************************************)
C8_NormalizerEqualsReference ==
    fnRes # <<>> /\ fnArg.status = 200 /\ fnArg.json =>
        /\ fnRes[1].kind = "return"
        /\ fnRes[1].items = RefItems(fnArg.body)
        /\ fnRes[1].count = Len(RefItems(fnArg.body))
        /\ fnArg.body = Example1 =>
              fnRes[1] = Returned(<<Obj(<<<<"a", Num("1")>>, <<"b", Num("2")>>>>),
                                    Obj(<<<<"a", Num("3")>>, <<"b", Num("4")>>>>)>>)
        /\ fnArg.body = Example2 => fnRes[1] = Returned(<<Obj(<<<<"x", Num("1")>>>>)>>)
        /\ fnArg.body = Example3 => fnRes[1] = Returned(<<>>)

\* the rows are zipped and one of them is null
ZipsNullRow(body) ==
    /\ Len(RefColumns(body)) > 0
    /\ Len(RefRows(body)) > 0
    /\ RefRows(body)[1].t = "arr"
    /\ \E k \in 1..Len(RefRows(body)) : RefRows(body)[k].t = "null"

\* Where no null row is zipped the code and the reference agree, the three
\* named bodies included; where one is, the call rejects.
NormalizerEqualsReferenceWithoutNullRows ==
    fnRes # <<>> /\ fnArg.status = 200 /\ fnArg.json =>
        IF ZipsNullRow(fnArg.body)
        THEN fnRes[1].kind = "throw"
        ELSE /\ fnRes[1].kind = "return"
             /\ fnRes[1].items = RefItems(fnArg.body)
             /\ fnRes[1].count = Len(RefItems(fnArg.body))
             /\ fnArg.body = Example1 =>
                   fnRes[1] = Returned(<<Obj(<<<<"a", Num("1")>>, <<"b", Num("2")>>>>),
                                         Obj(<<<<"a", Num("3")>>, <<"b", Num("4")>>>>)>>)
             /\ fnArg.body = Example2 => fnRes[1] = Returned(<<Obj(<<<<"x", Num("1")>>>>)>>)
             /\ fnArg.body = Example3 => fnRes[1] = Returned(<<>>)

\* A body that is not JSON, under a success status, is read as {}
NormalizerReadsMalformedAsEmpty ==
    fnRes # <<>> /\ fnArg.status = 200 /\ ~fnArg.json => fnRes[1] = Returned(<<>>)

(***************************************************************************)
(* C11: a request answered 401 on a reporting path does nothing more: it   *)
(* has ended, it made no cache read, no upstream query and no cache write, *)
(* and no cache entry is its own.                                          *)
(***************************************************************************)
C11_UnauthorizedStopsProcessing ==
    \A r \in Requests :
        resp[r].status = 401 =>
            /\ Done(r)
            /\ req[r].path \in ReportingPaths
            /\ cnt[r].kvGet = 0 /\ cnt[r].upstream = 0 /\ cnt[r].kvPut = 0
            /\ obs[r] = <<>>
            /\ local[r] = Undef
            /\ \A k \in AllPaths : ~(kv[k].present /\ kv[k].writer = r)
            /\ (\A o \in Requests : o # r => resp[o].xcache # "MISS") =>
                  \A k \in AllPaths : ~kv[k].present

C11_Witness ==
    \E r1, r2 \in Requests :
        /\ resp[r1].status = 401 /\ req[r1].path = P_top /\ req[r1].auth = H_wrong
        /\ resp[r2].xcache = "MISS" /\ req[r2].path = P_top
        /\ kv[P_top].present /\ kv[P_top].writer = r2

\* request r read the cache and found nothing to serve
Missed(r) ==
    /\ req[r].path \in SupportedPaths
    /\ \E i \in ObsOf(r, "kvGet") :
          /\ obs[r][i].ok
          /\ ~(obs[r][i].seen.present /\ obs[r][i].at < obs[r][i].seen.writtenAt + 60)

\* request r read the cache while an entry younger than the TTL was there
ReadLiveEntry(r) ==
    \E i \in ObsOf(r, "kvGet") :
        /\ obs[r][i].ok
        /\ obs[r][i].seen.present
        /\ obs[r][i].at < obs[r][i].seen.writtenAt + 60

\* the upstream query of request r came back with rows
UpstreamGaveRows(r) == \E i \in ObsOf(r, "aeFetch") : obs[r][i].ok

(***************************************************************************)
(* C12 (as stated): every request that misses the cache on a supported     *)
(* reporting path issues at most one upstream query and performs exactly   *)
(* one cache write.                                                        *)
(***************************************************************************)
C12_EveryMissWritesOnce ==
    \A r \in Requests :
        Done(r) /\ Missed(r) => cnt[r].upstream <= 1 /\ cnt[r].kvPut = 1

(***************************************************************************)
(* C12 (amended): a request that misses the cache on a supported reporting *)
(* path issues exactly one upstream query (no retry) and at most one cache *)
(* write: one when the query came back with rows, none when it failed.     *)
(* Misses are not coalesced: each request that saw no live entry queries   *)
(* and writes on its own account.  A request that reads the cache while an *)
(* entry younger than the TTL is there is served from it (HIT) with no     *)
(* upstream query and no write.                                            *)
(***************************************************************************)
C12_MissQueriesOnceWritesAtMostOnce ==
    \A r \in Requests :
        /\ cnt[r].kvGet <= 1 /\ cnt[r].upstream <= 1 /\ cnt[r].kvPut <= 1
        /\ cnt[r].upstream = Cardinality(ObsOf(r, "aeFetch"))
        /\ cnt[r].kvPut = Cardinality(ObsOf(r, "kvPut"))
        /\ Done(r) /\ Missed(r) =>
              /\ cnt[r].upstream = 1
              /\ cnt[r].kvPut = IF UpstreamGaveRows(r) THEN 1 ELSE 0
        /\ cnt[r].upstream = 1 => Missed(r)
        /\ cnt[r].kvPut = 1 => Missed(r) /\ UpstreamGaveRows(r)
        /\ ReadLiveEntry(r) =>
              /\ Done(r)
              /\ resp[r].status = 200 /\ resp[r].xcache = "HIT"
              /\ cnt[r].upstream = 0 /\ cnt[r].kvPut = 0

\* two overlapping misses of one key: each queried upstream and each wrote
C12_Witness ==
    \E r1, r2 \in Requests :
        /\ r1 # r2
        /\ req[r1].path = req[r2].path
        /\ \A r \in {r1, r2} :
              /\ Done(r) /\ Missed(r)
              /\ \A i \in ObsOf(r, "kvGet") : ~obs[r][i].seen.present
              /\ cnt[r].upstream = 1 /\ cnt[r].kvPut = 1
              /\ \E i \in ObsOf(r, "kvPut") : obs[r][i].ok
              /\ resp[r].xcache = "MISS"

\* the write of request r is registered with the execution context and has not settled
WritePending(r) == tele[r] \in {"pendingValue", "pendingPromise"}

\* a step of the response path of request r
ResponsePathStep(r) ==
    \/ KvGetReturns(r) \/ KvGetThrows(r)
    \/ AeFetch(r)
    \/ KvPutReturns(r) \/ KvPutThrows(r)
    \/ ForwardReturns(r) \/ ForwardThrows(r)

\* the write of request r settles in this step
WriteSettles(r) == WritePending(r) /\ ~WritePending(r)'

(***************************************************************************)
(* C13: the telemetry write is never awaited by the response path.  For a  *)
(* flagged request whose write call did not throw, the write is registered *)
(* (pending or settled) as soon as the handler has started; while the      *)
(* response is not yet produced the response path can always take its next *)
(* step, whether the write is pending or not; and the step in which the    *)
(* write settles, before or after the response, changes neither the        *)
(* response nor the handler's position nor the cache.                      *)
(***************************************************************************)
C13_WriteNeverAwaited ==
    /\ [](\A r \in Requests :
            Started(r) /\ isPhpPath(req[r].path) =>
                /\ tele[r] \in {"threw", "pendingValue", "pendingPromise", "fulfilled", "rejected"}
                /\ (tele[r] = "threw") = (logs[r] = <<"Failed to log .php attempt">>)
                /\ ~Done(r) => ENABLED ResponsePathStep(r))
    /\ [][\A r \in Requests :
            WriteSettles(r) =>
                /\ tele'[r] \in {"fulfilled", "rejected"}
                /\ resp' = resp /\ pc' = pc /\ kv' = kv /\ obs' = obs]_vars

\* the response has been produced while the write is still pending
C13_Witness ==
    \E r \in Requests :
        /\ Done(r)
        /\ isPhpPath(req[r].path)
        /\ resp[r].kind = "response"
        /\ resp[r].by = "origin"
        /\ tele[r] = "pendingPromise"

(***************************************************************************)
(* The event built for a flagged request (index.ts 105-126), over edge     *)
(* metadata of every shape                                                 *)
(***************************************************************************)
CountryValues == {Missing, Str("DE"), Num("4"), Null}
RegionValues == {Missing, Str("BE"), Null, Bool("true")}
AsnValues ==
    {Missing, Undef, Null, Num("3"), Num("0"), Str("AS3"), Bool("true"), Obj(<<>>)}

EdgeValues ==
    {Undef, Null}
    \cup {ObjOf(<<<<"country", c>>, <<"region", g>>, <<"asn", a>>>>) :
            c \in CountryValues, g \in RegionValues, a \in AsnValues}

FlaggedRequests == {Request(P_php, Absent, u, PLAIN_DOMAIN, e) : u \in UserAgents, e \in EdgeValues}

InitCf ==
    /\ HandlerIdle
    /\ fnArg \in FlaggedRequests
    /\ fnRes = <<>>

ApplyDataPoint ==
    /\ fnRes = <<>>
    /\ fnRes' = <<DataPoint(fnArg, fnArg.path, 1)>>
    /\ UNCHANGED <<handlerVars, fnArg>>

NextCf == ApplyDataPoint

SpecCf == InitCf /\ [][NextCf]_vars

\* the edge value of a field of the request's metadata, Undef when it is missing
EdgeField(q, f) == Get(q.cf, f)

(***************************************************************************)
(* C14 (as stated): in the event of a flagged request the ASN blob is the  *)
(* string-encoded edge value when the edge gives a number, and "0" when    *)
(* the ASN is missing or of another type; country and region are the edge  *)
(* strings or "ZZ" and "".                                                 *)
(***************************************************************************)
C14_WrongTypeDefaulted ==
    fnRes # <<>> =>
        LET b == fnRes[1].blobs
            c == EdgeField(fnArg, "country")
            g == EdgeField(fnArg, "region")
            a == EdgeField(fnArg, "asn")
        IN  /\ b[2] = IF c.t = "str" THEN c.v ELSE "ZZ"
            /\ b[3] = IF g.t = "str" THEN g.v ELSE ""
            /\ b[5] = IF a.t = "num" THEN a.v ELSE "0"

(***************************************************************************)
(* C14 (amended): in the event of a flagged request, country is the edge   *)
(* value when that is a string and "ZZ" otherwise; region is the edge      *)
(* value when that is a string and "" otherwise; ASN is "0" only when the  *)
(* edge value is missing, undefined or null, and otherwise the edge value  *)
(* string-encoded whatever its type.  The record has the blobs [path,      *)
(* country, region, user-agent, ASN] in that order, doubles [1] and one    *)
(* index.                                                                  *)
(***************************************************************************)
C14_EdgeFieldsDefaulted ==
    fnRes # <<>> =>
        LET b == fnRes[1].blobs
            c == EdgeField(fnArg, "country")
            g == EdgeField(fnArg, "region")
            a == EdgeField(fnArg, "asn")
        IN  /\ Len(b) = 5
            /\ b[1] = fnArg.path
            /\ b[2] = IF c.t = "str" THEN c.v ELSE "ZZ"
            /\ b[3] = IF g.t = "str" THEN g.v ELSE ""
            /\ b[4] = Slice(HeaderOrEmpty(fnArg.ua), 0, 140)
            /\ b[5] = CASE a.t \in {"missing", "undef", "null"} -> "0"
                        [] a.t \in {"num", "str", "bool"} -> a.v
                        [] OTHER -> "[object Object]"
            /\ fnRes[1].doubles = <<1>>
            /\ Len(fnRes[1].indexes) = 1

\* country and region defaulted, a string ASN carried as it came
C14_Witness ==
    /\ fnArg.cf = ObjOf(<<<<"country", Num("4")>>, <<"region", Null>>, <<"asn", Str("AS3")>>>>)
    /\ fnArg.ua = UA_long
    /\ fnRes # <<>>
    /\ fnRes[1].blobs = <<P_php, "ZZ", "", Slice(UA_long.val, 0, 140), "AS3">>

====
